---------------------------- MODULE Spec2Model ----------------------------
(***************************************************************************)
(* Equipment condition dashboards: score normalisation, equipment          *)
(* classification, system/area roll-up and date filtering, as implemented  *)
(* by the four scripts dashboard.py, dashboard2.py, dashboard3.py and      *)
(* dashboard_pivot.py.                                                     *)
(*                                                                         *)
(* Python and pandas values are tagged records, so that values of          *)
(* different Python types can be compared:                                  *)
(*   None, NaN (float nan / NaT-free missing cell), PyInt(v), PyFloat(n,d) *)
(*   (the rational n/d, d a power of ten), PyInf(neg), PyStr(s) with s a   *)
(*   sequence of one-character strings, Raise(e) for a raised exception.   *)
(***************************************************************************)
EXTENDS Integers, Sequences, FiniteSets, TLC

VARIABLES
    arg,            \* unit calls: the value passed to the helper function
    ret,            \* unit calls: which helper ran and what it returned
    script,         \* pipeline: which script is running
    pc,             \* pipeline: the statement block the script has reached
    df,             \* pipeline: the DataFrame, a sequence of row records
    date_range,     \* pipeline: the (start, end) dates picked in the date input
    system_scores,  \* pipeline: the frame grouped by (AREA, SYSTEM)
    area_scores,    \* pipeline: the frame grouped by AREA
    filtered_df_display, \* pipeline: dashboard3's rows of the selected system
    sheet,          \* pipeline: the rows of the Scorecard sheet of the file
    notices,        \* pipeline: what st.caption / st.warning / st.info /
                    \* st.metric have shown so far
    trend_df,       \* dashboard3: the frame grouped by (DATE, SYSTEM)
    latest_for_pie, \* pivot: the latest row of each equipment
    latest_equipment_status,  \* pivot: the latest status of each
                    \* (equipment, system)
    selected_system,     \* pivot: the system picked in the explorer grid
    detail_df,      \* pivot: the latest row of each equipment of that system
    selected_equip_name, \* pivot: the equipment picked in the detail grid
    aggregated_df   \* pivot: the rows of the performance trend

\* The frames and selections of the views that follow the aggregation.
views == <<trend_df, latest_for_pie, latest_equipment_status, selected_system,
           detail_df, selected_equip_name, aggregated_df>>

vars == <<arg, ret, script, pc, df, date_range, system_scores, area_scores,
          filtered_df_display, sheet, notices, views>>

---------------------------------------------------------------------------
(* Python values *)

None == [t |-> "None"]
NaN == [t |-> "NaN"]
PyInt(v) == [t |-> "int", v |-> v]
PyFloat(n, d) == [t |-> "float", n |-> n, d |-> d]
PyInf(neg) == [t |-> "inf", neg |-> neg]
PyStr(s) == [t |-> "str", s |-> s]
Raise(e) == [t |-> "raise", exc |-> e]

\* pd.isna on a scalar: None and float nan are missing, everything else is not.
isna(val) == val.t \in {"None", "NaN", "NaT"}

Max2(a, b) == IF a >= b THEN a ELSE b
Min2(a, b) == IF a <= b THEN a ELSE b

---------------------------------------------------------------------------
(* Python strings: str.strip, str.lower, str(), float() *)

Whitespace == {" ", "\t"}
DigitChars == <<"0", "1", "2", "3", "4", "5", "6", "7", "8", "9">>
UpperChars == <<"A", "B", "C", "D", "E", "F", "G", "H", "I", "J", "K", "L", "M",
                "N", "O", "P", "Q", "R", "S", "T", "U", "V", "W", "X", "Y", "Z">>
LowerChars == <<"a", "b", "c", "d", "e", "f", "g", "h", "i", "j", "k", "l", "m",
                "n", "o", "p", "q", "r", "s", "t", "u", "v", "w", "x", "y", "z">>

IsDigit(c) == \E i \in 1..Len(DigitChars) : DigitChars[i] = c
DigitVal(c) == (CHOOSE i \in 1..Len(DigitChars) : DigitChars[i] = c) - 1

lower_char(c) ==
    IF \E i \in 1..Len(UpperChars) : UpperChars[i] = c
    THEN LowerChars[CHOOSE i \in 1..Len(UpperChars) : UpperChars[i] = c]
    ELSE c

upper_char(c) ==
    IF \E i \in 1..Len(LowerChars) : LowerChars[i] = c
    THEN UpperChars[CHOOSE i \in 1..Len(LowerChars) : LowerChars[i] = c]
    ELSE c

\* str.lower() and str.upper()
lower(s) == [i \in 1..Len(s) |-> lower_char(s[i])]
upper(s) == [i \in 1..Len(s) |-> upper_char(s[i])]

\* str.strip(): drop the leading and the trailing whitespace
strip(s) ==
    LET keep == {i \in 1..Len(s) : s[i] \notin Whitespace}
    IN  IF keep = {} THEN <<>>
        ELSE LET lo == CHOOSE i \in keep : \A j \in keep : i <= j
                 hi == CHOOSE i \in keep : \A j \in keep : i >= j
             IN  SubSeq(s, lo, hi)

RECURSIVE DigitsValue(_)
DigitsValue(ds) ==
    IF ds = <<>> THEN 0
    ELSE 10 * DigitsValue(SubSeq(ds, 1, Len(ds) - 1)) + DigitVal(ds[Len(ds)])

RECURSIVE Pow10(_)
Pow10(k) == IF k = 0 THEN 1 ELSE 10 * Pow10(k - 1)

RECURSIVE NatDigits(_)
NatDigits(n) ==
    IF n < 10 THEN <<DigitChars[n + 1]>>
    ELSE NatDigits(n \div 10) \o <<DigitChars[(n % 10) + 1]>>

\* str(val): a str is itself, an int prints its digits, a float prints its
\* repr with one fractional digit (the floats of the model are tenths).
PyStrOf(val) ==
    CASE val.t = "str" -> val.s
      [] val.t = "int" ->
            IF val.v < 0 THEN <<"-">> \o NatDigits(-val.v) ELSE NatDigits(val.v)
      [] val.t = "float" ->
            LET a == IF val.n < 0 THEN -val.n ELSE val.n
                body == NatDigits(a \div val.d) \o <<".">> \o NatDigits(a % val.d)
            IN  IF val.n < 0 THEN <<"-">> \o body ELSE body
      [] val.t = "NaN" -> <<"n", "a", "n">>
      [] OTHER -> <<"N", "o", "n", "e">>

STR_INF == <<"i", "n", "f">>
STR_INFINITY == <<"i", "n", "f", "i", "n", "i", "t", "y">>
STR_NAN == <<"n", "a", "n">>

\* float(s) for the decimal literals [sign] digits [. digits], [sign] . digits,
\* and the special words inf, infinity, nan (any case); surrounding whitespace
\* is ignored.  Anything else raises ValueError.
ParseFloat(s0) ==
    LET s == strip(s0)
        signed == Len(s) > 0 /\ s[1] \in {"+", "-"}
        neg == signed /\ s[1] = "-"
        body == IF signed THEN Tail(s) ELSE s
        dots == {i \in 1..Len(body) : body[i] = "."}
        dot == IF dots = {} THEN Len(body) + 1 ELSE CHOOSE i \in dots : TRUE
        ip == SubSeq(body, 1, dot - 1)
        fp == SubSeq(body, dot + 1, Len(body))
        n == DigitsValue(ip \o fp)
    IN  IF lower(body) \in {STR_INF, STR_INFINITY} THEN PyInf(neg)
        ELSE IF lower(body) = STR_NAN THEN NaN
        ELSE IF /\ Cardinality(dots) <= 1
                /\ \A i \in 1..Len(body) : i \in dots \/ IsDigit(body[i])
                /\ Len(ip) + Len(fp) > 0
             THEN PyFloat(IF neg THEN -n ELSE n, Pow10(Len(fp)))
             ELSE Raise("ValueError")

\* round(x) of a float: the nearest integer, a tie going to the even one.
PyRound(f) ==
    LET q == f.n \div f.d
        r == f.n % f.d
    IN  IF 2 * r < f.d THEN q
        ELSE IF 2 * r > f.d THEN q + 1
        ELSE IF q % 2 = 0 THEN q ELSE q + 1

\* int(x) of a float or an int: truncation toward zero.
PyTrunc(x) ==
    IF x.t = "int" THEN x.v
    ELSE IF x.n >= 0 THEN x.n \div x.d ELSE -((-x.n) \div x.d)

---------------------------------------------------------------------------
(* dashboard.py: coerce_score and score_to_status *)

\* The label sets of coerce_score (lines 62-70).
map3 ==
    { <<"3">>,
      <<"g","o","o","d">>,
      <<"n","o","r","m","a","l">>,
      <<"o","k">>,
      <<"g","r","e","e","n">>,
      <<"p","a","s","s">>,
      <<"l","o","w"," ","r","i","s","k">>,
      <<"b","a","i","k">> }
map2 ==
    { <<"2">>,
      <<"f","a","i","r">>,
      <<"m","e","d","i","u","m">>,
      <<"m","o","d","e","r","a","t","e">>,
      <<"y","e","l","l","o","w">>,
      <<"a","l","e","r","t">>,
      <<"c","u","k","u","p">> }
map1 ==
    { <<"1">>,
      <<"b","a","d">>,
      <<"p","o","o","r">>,
      <<"f","a","i","l">>,
      <<"r","e","d">>,
      <<"c","r","i","t","i","c","a","l">>,
      <<"b","u","r","u","k">>,
      <<"n","e","e","d"," ","a","c","t","i","o","n">>,
      <<"a","c","t","i","o","n">> }

\* Mutant of coerce_text: the label is looked up without lower().
coerce_text_case_sensitive(val) ==
    LET s == strip(PyStrOf(val))
    IN  IF s \in map3 THEN PyInt(3)
        ELSE IF s \in map2 THEN PyInt(2)
        ELSE IF s \in map1 THEN PyInt(1)
        ELSE IF s = <<"1">> THEN PyInt(1)
        ELSE IF s = <<"2">> THEN PyInt(2)
        ELSE IF s = <<"3">> THEN PyInt(3)
        ELSE None

\* The text path of coerce_score (lines 61-81): strip, lower, look the label
\* up in map3, map2, map1, then the last-resort digit loop.
coerce_text(val) ==
    LET s == lower(strip(PyStrOf(val)))
    IN  IF s \in map3 THEN PyInt(3)
        ELSE IF s \in map2 THEN PyInt(2)
        ELSE IF s \in map1 THEN PyInt(1)
        ELSE IF s = <<"1">> THEN PyInt(1)
        ELSE IF s = <<"2">> THEN PyInt(2)
        ELSE IF s = <<"3">> THEN PyInt(3)
        ELSE None

\* The numeric path of coerce_score (lines 54-59): float(str(val).strip()),
\* int(round(v)), max(1, min(3, v)).  round() of inf raises OverflowError and
\* round() of nan raises ValueError; like the ValueError of float(), both are
\* swallowed by "except Exception: pass" and the text path runs.
\* Mutant of coerce_numeric: int(v) in place of int(round(v)).
coerce_numeric_truncating(val) ==
    LET f == ParseFloat(strip(PyStrOf(val)))
    IN  IF f.t = "float"
        THEN PyInt(Max2(1, Min2(3, PyTrunc(f))))
        ELSE Raise(IF f.t = "inf" THEN "OverflowError" ELSE "ValueError")

coerce_numeric(val) ==
    LET f == ParseFloat(strip(PyStrOf(val)))
    IN  IF f.t = "float"
        THEN PyInt(Max2(1, Min2(3, PyRound(f))))
        ELSE Raise(IF f.t = "inf" THEN "OverflowError" ELSE "ValueError")

coerce_score(val) ==
    IF isna(val) THEN None
    ELSE LET v == coerce_numeric(val)
         IN  IF v.t # "raise" THEN v ELSE coerce_text(val)

\* Mutant of score_to_status: GREEN as the default of the lookup.
score_to_status_default_green(score) ==
    IF isna(score) THEN "UNKNOWN"
    ELSE LET s == PyTrunc(score)
         IN  CASE s = 1 -> "RED"
               [] s = 2 -> "AMBER"
               [] OTHER -> "GREEN"

\* score_to_status (lines 84-88).
score_to_status(score) ==
    IF isna(score) THEN "UNKNOWN"
    ELSE LET s == PyTrunc(score)
         IN  CASE s = 1 -> "RED"
               [] s = 2 -> "AMBER"
               [] s = 3 -> "GREEN"
               [] OTHER -> "UNKNOWN"

---------------------------------------------------------------------------
(* dashboard2.py / dashboard3.py: SCORE_MAPPINGS, map_score, aggregate_score *)

MAPPING_VIBRATION ==
       (<<"a","c","c","e","p","t","a","b","l","e">> :> PyInt(3))
    @@ (<<"e","x","c","e","l","l","e","n","t">> :> PyInt(3))
    @@ (<<"o","k">> :> PyInt(3))
    @@ (<<"r","e","q","u","i","r","e","s"," ","e","v","a","l","u","a","t","i","o","n">> :> PyInt(2))
    @@ (<<"u","n","a","c","c","e","p","t","a","b","l","e">> :> PyInt(1))
    @@ (<<"n","o","t"," ","a","p","p","l","i","c","a","b","l","e">> :> None)

MAPPING_OIL_ANALYSIS ==
       (<<"n","o"," ","a","c","t","i","o","n"," ","r","e","q","u","i","r","e","d">> :> PyInt(3))
    @@ (<<"o","k">> :> PyInt(3))
    @@ (<<"m","o","n","i","t","o","r"," ","c","o","m","p","a","r","t","m","e","n","t">> :> PyInt(2))
    @@ (<<"n","e","e","d"," ","a","c","t","i","o","n">> :> PyInt(2))
    @@ (<<"u","r","g","e","n","t"," ","a","c","t","i","o","n"," ","r","e","q","u","i","r","e","d">> :> PyInt(1))
    @@ (<<"n","o","t"," ","a","p","p","l","i","c","a","b","l","e">> :> None)

MAPPING_TEMPERATURE ==
       (<<"g","o","o","d">> :> PyInt(3))
    @@ (<<"w","a","r","n","i","n","g">> :> PyInt(2))
    @@ (<<"u","n","a","c","c","e","p","t","a","b","l","e">> :> PyInt(1))
    @@ (<<"n","o","t"," ","a","p","p","l","i","c","a","b","l","e">> :> None)

MAPPING_OTHER_INSPECTION ==
       (<<"g","o","o","d">> :> PyInt(3))
    @@ (<<"a","l","e","r","t">> :> PyInt(2))
    @@ (<<"n","e","e","d"," ","a","c","t","i","o","n">> :> PyInt(1))
    @@ (<<"n","o","t"," ","a","p","p","l","i","c","a","b","l","e">> :> None)

SCORE_MAPPINGS ==
       ("VIBRATION" :> MAPPING_VIBRATION)
    @@ ("OIL ANALYSIS" :> MAPPING_OIL_ANALYSIS)
    @@ ("TEMPERATURE" :> MAPPING_TEMPERATURE)
    @@ ("OTHER INSPECTION" :> MAPPING_OTHER_INSPECTION)

\* Mutant of dict_get: the subscript d[key], which raises on a missing key.
dict_subscript(d, key) == IF key \in DOMAIN d THEN d[key] ELSE Raise("KeyError")

\* dict.get(key, None)
dict_get(d, key) == IF key \in DOMAIN d THEN d[key] ELSE None

\* map_score (dashboard2.py lines 35-39, dashboard3.py lines 21-24).
\* SCORE_MAPPINGS[category] is a subscript: a category that is not a key
\* raises KeyError.
map_score(value, category) ==
    IF isna(value) THEN None
    ELSE IF category \notin DOMAIN SCORE_MAPPINGS THEN Raise("KeyError")
    ELSE dict_get(SCORE_MAPPINGS[category], lower(strip(PyStrOf(value))))

\* The numeric value of an int or a float as the pair numerator, denominator.
NumN(x) == IF x.t = "int" THEN x.v ELSE x.n
NumD(x) == IF x.t = "int" THEN 1 ELSE x.d

\* a < b on Python numbers: any comparison with nan is False.
PyLess(a, b) ==
    /\ a.t # "NaN"
    /\ b.t # "NaN"
    /\ NumN(a) * NumD(b) < NumN(b) * NumD(a)

\* The builtin min(list): start from the first item and replace the running
\* result by each later item that compares less than it.
RECURSIVE PyMinFrom(_, _)
PyMinFrom(best, xs) ==
    IF xs = <<>> THEN best
    ELSE PyMinFrom(IF PyLess(Head(xs), best) THEN Head(xs) ELSE best, Tail(xs))

PyMin(xs) == PyMinFrom(Head(xs), Tail(xs))

\* [s for s in subs if s is not None]
RECURSIVE NotNone(_)
NotNone(xs) ==
    IF xs = <<>> THEN <<>>
    ELSE IF Head(xs).t = "None" THEN NotNone(Tail(xs))
    ELSE <<Head(xs)>> \o NotNone(Tail(xs))

\* aggregate_score (dashboard2.py lines 42-51, dashboard3.py lines 26-29).
aggregate_score(row) ==
    LET subs == NotNone(<<row.VIBRATION_SCORE, row.OIL_SCORE,
                          row.TEMP_SCORE, row.OTHER_SCORE>>)
    IN  IF subs # <<>> THEN PyMin(subs) ELSE None

---------------------------------------------------------------------------
(* dashboard_pivot.py: map_status *)

\* map_status (lines 13-21); == on numbers compares values, nan equals nothing.
map_status(score) ==
    IF score.t \in {"int", "float"} /\ NumN(score) = NumD(score) THEN "Need Action"
    ELSE IF score.t \in {"int", "float"} /\ NumN(score) = 2 * NumD(score) THEN "Caution"
    ELSE IF score.t \in {"int", "float"} /\ NumN(score) = 3 * NumD(score) THEN "Okay"
    ELSE "UNKNOWN"

---------------------------------------------------------------------------
(* pandas: missing values, column dtypes, sorting, group-by *)

NaT == [t |-> "NaT"]

\* A Timestamp cell; v counts ticks of 1/TicksPerDay of a day since day 0, so
\* v % TicksPerDay = 0 is midnight.
Ts(v) == [t |-> "ts", v |-> v]

\* Series.notna / Series.isna on a cell of any column.
notna(val) == ~isna(val)

\* The number of ticks a day is divided into (2: midnight and noon).
TicksPerDay == 2

\* pd.Timestamp(date) / pd.to_datetime(date): midnight of that day.
Timestamp(day) == Ts(day * TicksPerDay)

\* Timestamp.date() / Series.dt.date: the calendar day of a timestamp.
dt_date(ts) == ts.v \div TicksPerDay

\* pd.to_datetime(column, errors="coerce") on one cell: a datetime cell is
\* kept, a missing cell and a text that is no date become NaT.  (The text date
\* cells of the model are unparseable words.)
to_datetime(val) == IF val.t = "ts" THEN val ELSE NaT

\* pd.to_numeric(column, errors="coerce") on one cell: numbers are kept, text
\* is parsed as a float, everything else becomes NaN.
to_numeric(val) ==
    CASE val.t \in {"int", "float"} -> val
      [] val.t = "str" ->
            LET f == ParseFloat(val.s) IN IF f.t = "float" THEN f ELSE NaN
      [] OTHER -> NaN

\* The dtype pandas infers for the values a Series.apply / DataFrame.apply
\* returned (lib.maybe_convert_objects): all None stays an object column of
\* None, all ints is an int64 column, and any other mix is float64, where None
\* becomes nan and an int its float.
AsFloat(x) ==
    CASE x.t = "int" -> PyFloat(x.v, 1)
      [] x.t = "None" -> NaN
      [] OTHER -> x

InferColumn(vals) ==
    IF \A i \in 1..Len(vals) : vals[i].t = "None" THEN vals
    ELSE IF \A i \in 1..Len(vals) : vals[i].t = "int" THEN vals
    ELSE [i \in 1..Len(vals) |-> AsFloat(vals[i])] \o <<>>

\* Code points, in increasing order, of the characters of the model's keys.
CodePoints ==
    <<"\t", " ", "+", "-", ".", "/">> \o DigitChars \o UpperChars \o LowerChars

Ord(c) == CHOOSE i \in 1..Len(CodePoints) : CodePoints[i] = c

\* a < b on Python strings.
RECURSIVE StrLess(_, _)
StrLess(a, b) ==
    IF b = <<>> THEN FALSE
    ELSE IF a = <<>> THEN TRUE
    ELSE IF Head(a) # Head(b) THEN Ord(Head(a)) < Ord(Head(b))
    ELSE StrLess(Tail(a), Tail(b))

\* a < b on two cells of one key column: Timestamps by time, strings by
\* code points.
CellLess(a, b) == IF a.t = "ts" THEN a.v < b.v ELSE StrLess(a.s, b.s)

\* a < b on group keys: tuples of cells, compared left to right.
RECURSIVE KeyLess(_, _)
KeyLess(a, b) ==
    IF a = <<>> \/ b = <<>> THEN FALSE
    ELSE IF Head(a) # Head(b) THEN CellLess(Head(a), Head(b))
    ELSE KeyLess(Tail(a), Tail(b))

\* The keys of a group-by in the order of its result (sort=True).
RECURSIVE SortedKeys(_)
SortedKeys(K) ==
    IF K = {} THEN <<>>
    ELSE LET k == CHOOSE x \in K : \A y \in K \ {x} : KeyLess(x, y)
         IN  <<k>> \o SortedKeys(K \ {k})

\* min() and max() of a non-empty set of integers.
MinOfSet(S) == CHOOSE x \in S : \A y \in S : x <= y
MaxOfSet(S) == CHOOSE x \in S : \A y \in S : x >= y

\* Mutant of SkipNaMin: a minimum that is missing as soon as one cell is.
SkipNaMin_propagating(cells) ==
    IF \E x \in cells : isna(x) THEN NaN
    ELSE IF cells = {} THEN NaN
    ELSE CHOOSE x \in cells :
            \A y \in cells : NumN(x) * NumD(y) <= NumN(y) * NumD(x)

\* GroupBy.min() / DataFrame.min(skipna=True) of a set of cells: the smallest
\* cell that is not missing, nan when every cell is missing.
SkipNaMin(cells) ==
    LET known == {x \in cells : notna(x)}
    IN  IF known = {} THEN NaN
        ELSE CHOOSE x \in known :
                \A y \in known : NumN(x) * NumD(y) <= NumN(y) * NumD(x)

\* The cells of a column, as a set.
Cells(rows, col) == {rows[i][col] : i \in 1..Len(rows)}

\* The names in a sequence of column names.
Names(cols) == {cols[j] : j \in 1..Len(cols)}

\* Mutant of GroupByMin: GroupBy.last(), the cell of the last row of each key.
GroupByMin_last(rows, keycols, col) ==
    LET keyof(r) == [j \in 1..Len(keycols) |-> r[keycols[j]]]
        keyed(r) == \A j \in 1..Len(keycols) : notna(r[keycols[j]])
        K == {keyof(rows[i]) : i \in {j \in 1..Len(rows) : keyed(rows[j])}}
        ks == SortedKeys(K)
        last(k) == rows[MaxOfSet({j \in 1..Len(rows) :
                            keyed(rows[j]) /\ keyof(rows[j]) = k})][col]
        pos(c) == CHOOSE j \in 1..Len(keycols) : keycols[j] = c
    IN  [i \in 1..Len(ks) |->
            (col :> last(ks[i]))
                @@ [c \in Names(keycols) |-> ks[i][pos(c)]]] \o <<>>

\* frame.groupby(keycols)[col].min().reset_index(): one row per key whose
\* cells are all present (dropna=True), in key order, holding the key columns
\* and the minimum of col.
GroupByMin(rows, keycols, col) ==
    LET keyof(r) == [j \in 1..Len(keycols) |-> r[keycols[j]]]
        keyed(r) == \A j \in 1..Len(keycols) : notna(r[keycols[j]])
        K == {keyof(rows[i]) : i \in {j \in 1..Len(rows) : keyed(rows[j])}}
        ks == SortedKeys(K)
        members(k) == {rows[i][col] : i \in {j \in 1..Len(rows) :
                            keyed(rows[j]) /\ keyof(rows[j]) = k}}
        pos(c) == CHOOSE j \in 1..Len(keycols) : keycols[j] = c
    IN  [i \in 1..Len(ks) |->
            (col :> SkipNaMin(members(ks[i])))
                @@ [c \in Names(keycols) |-> ks[i][pos(c)]]] \o <<>>

\* The rows at the positions idx (a sequence of row positions), in that order.
TakeRows(rows, idx) == [k \in 1..Len(idx) |-> rows[idx[k]]] \o <<>>

\* frame.sort_values("DATE", ascending=...) with the default kind="quicksort",
\* which is not a stable sort: rows with the same DATE come out in an order
\* the caller cannot rely on.  The orders the sort may return, each as the
\* sequence of the positions the rows had in the frame.
SortOrders(rows, ascending) ==
    {p \in Permutations(1..Len(rows)) :
        \A k \in 1..(Len(rows) - 1) :
            IF ascending THEN rows[p[k]].DATE.v <= rows[p[k + 1]].DATE.v
            ELSE rows[p[k]].DATE.v >= rows[p[k + 1]].DATE.v}

\* The columns that hold the status names returned by map_status and
\* score_to_status (a str in every row).
StatusColumns == {"EQUIP_STATUS", "STATUS", "SYSTEM_STATUS", "AREA_STATUS"}

\* The positions of the cells of a column that are not missing.
ValidCells(col, cells) ==
    {k \in 1..Len(cells) : col \in StatusColumns \/ notna(cells[k])}

\* The last cell of a column that is not missing, nan without one.
LastValid(col, cells) ==
    IF ValidCells(col, cells) = {} THEN NaN
    ELSE cells[MaxOfSet(ValidCells(col, cells))]

\* Mutant of GroupByLast: GroupBy.first(), the first valid cell of each group.
GroupByLast_first(rows, keycols, cols) ==
    LET keyof(r) == [j \in 1..Len(keycols) |-> r[keycols[j]]]
        keyed(r) == \A j \in 1..Len(keycols) : notna(r[keycols[j]])
        ks == SortedKeys({keyof(rows[i]) : i \in {j \in 1..Len(rows) : keyed(rows[j])}})
        members(k) == SelectSeq(rows, LAMBDA r : keyed(r) /\ keyof(r) = k)
        pos(c) == CHOOSE j \in 1..Len(keycols) : keycols[j] = c
        firstvalid(c, cells) ==
            IF ValidCells(c, cells) = {} THEN NaN
            ELSE cells[MinOfSet(ValidCells(c, cells))]
    IN  [i \in 1..Len(ks) |->
            [c \in Names(cols) |->
                firstvalid(c, [k \in 1..Len(members(ks[i])) |-> members(ks[i])[k][c]])]
                @@ [c \in Names(keycols) |-> ks[i][pos(c)]]] \o <<>>

\* frame.groupby(keycols)[cols].last().reset_index() (and the same with
\* as_index=False): one row per key, in key order, holding the key columns
\* and, for each column of cols, the last cell of the group that is not
\* missing.
GroupByLast(rows, keycols, cols) ==
    LET keyof(r) == [j \in 1..Len(keycols) |-> r[keycols[j]]]
        keyed(r) == \A j \in 1..Len(keycols) : notna(r[keycols[j]])
        ks == SortedKeys({keyof(rows[i]) : i \in {j \in 1..Len(rows) : keyed(rows[j])}})
        members(k) == SelectSeq(rows, LAMBDA r : keyed(r) /\ keyof(r) = k)
        pos(c) == CHOOSE j \in 1..Len(keycols) : keycols[j] = c
    IN  [i \in 1..Len(ks) |->
            [c \in Names(cols) |->
                LastValid(c, [k \in 1..Len(members(ks[i])) |-> members(ks[i])[k][c]])]
                @@ [c \in Names(keycols) |-> ks[i][pos(c)]]] \o <<>>

\* The positions, in increasing order, of a set of row positions.
RECURSIVE Ascending(_)
Ascending(S) ==
    IF S = {} THEN <<>>
    ELSE <<MinOfSet(S)>> \o Ascending(S \ {MinOfSet(S)})

\* frame.drop_duplicates(subset=[col], keep="first"): the rows whose cell of
\* col did not occur in an earlier row, in the order of the frame.
drop_duplicates(rows, col) ==
    TakeRows(rows, Ascending({i \in 1..Len(rows) :
                \A j \in 1..(i - 1) : rows[j][col] # rows[i][col]}))

\* Mutant of GroupByIdxMin: GroupBy.idxmax(), the row of the largest cell.
GroupByIdxMin_max(rows, keycol, col) ==
    LET ks == SortedKeys({<<rows[i][keycol]>> : i \in 1..Len(rows)})
        members(k) == {i \in 1..Len(rows) : rows[i][keycol] = k[1]}
        idxmax(k) == MinOfSet({i \in members(k) :
                        \A j \in members(k) : rows[i][col].v >= rows[j][col].v})
    IN  [i \in 1..Len(ks) |-> idxmax(ks[i])] \o <<>>

\* frame.groupby(keycol)[col].idxmin(): for each key, in key order, the
\* position of the first row of the group that holds the smallest cell of
\* col (an int64 column without missing cells).
GroupByIdxMin(rows, keycol, col) ==
    LET ks == SortedKeys({<<rows[i][keycol]>> : i \in 1..Len(rows)})
        members(k) == {i \in 1..Len(rows) : rows[i][keycol] = k[1]}
        idxmin(k) == MinOfSet({i \in members(k) :
                        \A j \in members(k) : rows[i][col].v <= rows[j][col].v})
    IN  [i \in 1..Len(ks) |-> idxmin(ks[i])] \o <<>>

---------------------------------------------------------------------------
(* Unit calls of the helper functions on bounded inputs *)

\* Raw integers run over -2..MaxRawInt and raw floats, in tenths, over
\* -1.5..MaxRawInt.
MaxRawInt == 5

RawInts == {PyInt(v) : v \in (0 - 2)..MaxRawInt}
RawFloats == {PyFloat(n, 10) : n \in (0 - 15)..(10 * MaxRawInt)}

\* Text cells that spell a finite number, each with the number it spells
\* (numerator n over denominator d).
NumericTexts ==
    { [s |-> <<"0">>, n |-> 0, d |-> 1],
      [s |-> <<" ","2"," ">>, n |-> 2, d |-> 1],
      [s |-> <<"3">>, n |-> 3, d |-> 1],
      [s |-> <<"4">>, n |-> 4, d |-> 1],
      [s |-> <<"+","1">>, n |-> 1, d |-> 1],
      [s |-> <<"-","1">>, n |-> 0 - 1, d |-> 1],
      [s |-> <<"2",".","5">>, n |-> 25, d |-> 10],
      [s |-> <<"1",".","5","0">>, n |-> 15, d |-> 10],
      [s |-> <<".","6">>, n |-> 6, d |-> 10],
      [s |-> <<"2",".">>, n |-> 2, d |-> 1],
      [s |-> <<"\t","2",".","4","9">>, n |-> 249, d |-> 100],
      [s |-> <<"1","0">>, n |-> 10, d |-> 1] }

\* Text cells that float() accepts but that spell no finite number.
NonFiniteTexts ==
    { <<"i","n","f">>,
      <<"-","I","n","f","i","n","i","t","y">>,
      <<"n","a","n">>,
      <<"N","a","N">> }

\* Text cells that are labels of no vocabulary of the repository.
UnknownTexts ==
    { <<>>,
      <<" ">>,
      <<"b","o","g","u","s">>,
      <<"n","/","a">>,
      <<"g","o","o","o","d">>,
      <<"1"," ","2">>,
      <<"2",".",".","5">>,
      <<"-">> }

\* Spellings of the label that SCORE_MAPPINGS maps to None.
NotApplicableTexts ==
    { <<"n","o","t"," ","a","p","p","l","i","c","a","b","l","e">>,
      <<"N","o","t"," ","A","p","p","l","i","c","a","b","l","e">>,
      <<" ","N","O","T"," ","A","P","P","L","I","C","A","B","L","E"," ">> }

\* Labels of the vocabularies, in several spellings.
LabelTexts ==
    { <<"g","o","o","d">>,
      <<"G","o","o","d">>,
      <<" ","G","O","O","D"," ">>,
      <<"o","k">>,
      <<"O","K">>,
      <<"A","l","e","r","t">>,
      <<"a","l","e","r","t"," ">>,
      <<"N","e","e","d"," ","A","c","t","i","o","n">>,
      <<"n","e","e","d"," ","a","c","t","i","o","n">>,
      <<"\t","N","E","E","D"," ","A","C","T","I","O","N">>,
      <<"u","n","a","c","c","e","p","t","a","b","l","e">>,
      <<"U","n","a","c","c","e","p","t","a","b","l","e">>,
      <<"w","a","r","n","i","n","g">>,
      <<"a","c","c","e","p","t","a","b","l","e">>,
      <<"E","x","c","e","l","l","e","n","t">>,
      <<"r","e","q","u","i","r","e","s"," ","e","v","a","l","u","a","t","i","o","n">>,
      <<"n","o"," ","a","c","t","i","o","n"," ","r","e","q","u","i","r","e","d">>,
      <<"M","o","n","i","t","o","r"," ","C","o","m","p","a","r","t","m","e","n","t">>,
      <<"u","r","g","e","n","t"," ","a","c","t","i","o","n"," ","r","e","q","u","i","r","e","d">>,
      <<"n","o","r","m","a","l">>,
      <<"F","a","i","r">>,
      <<"B","A","D">>,
      <<"l","o","w"," ","r","i","s","k">>,
      <<"B","a","i","k">>,
      <<"c","u","k","u","p">>,
      <<"b","u","r","u","k">>,
      <<"a","c","t","i","o","n">>,
      <<"c","r","i","t","i","c","a","l">> }

RawTexts ==
    {PyStr(x.s) : x \in NumericTexts}
        \cup {PyStr(s) : s \in NonFiniteTexts \cup UnknownTexts
                                \cup NotApplicableTexts \cup LabelTexts}

RawValues == {None, NaN} \cup RawInts \cup RawFloats \cup RawTexts

\* The categories map_score is called with: the four keys of SCORE_MAPPINGS
\* and the overall-score column, which has no entry in SCORE_MAPPINGS.
CategoryNames ==
    {"VIBRATION", "OIL ANALYSIS", "TEMPERATURE", "OTHER INSPECTION",
     "CONDITION MONITORING SCORE"}

\* Scores handed to score_to_status and map_status: missing, or a whole
\* number as an int or as a float.
ScoreValues ==
    {None, NaN} \cup {PyInt(v) : v \in (0 - 1)..MaxRawInt}
        \cup {PyFloat(v, 1) : v \in (0 - 1)..MaxRawInt}

NoCall == [fn |-> "none"]

\* Before a script has reached its views: no frame and no selection.
NoViews ==
    /\ trend_df = <<>>
    /\ latest_for_pie = <<>>
    /\ latest_equipment_status = <<>>
    /\ selected_system = None
    /\ detail_df = <<>>
    /\ selected_equip_name = None
    /\ aggregated_df = <<>>

InitUnit ==
    /\ arg \in RawValues \cup ScoreValues
    /\ ret = NoCall
    /\ script = "none"
    /\ pc = "none"
    /\ df = <<>>
    /\ date_range = <<>>
    /\ system_scores = <<>>
    /\ area_scores = <<>>
    /\ filtered_df_display = <<>>
    /\ sheet = <<>>
    /\ notices = <<>>
    /\ NoViews

pipeline_vars ==
    <<script, pc, df, date_range, system_scores, area_scores, filtered_df_display,
      sheet, notices, views>>

CallCoerceScore ==
    /\ ret = NoCall
    /\ arg \in RawValues
    /\ ret' = [fn |-> "coerce_score", out |-> coerce_score(arg)]
    /\ UNCHANGED <<arg, pipeline_vars>>

CallMapScore ==
    /\ ret = NoCall
    /\ arg \in RawValues
    /\ \E category \in CategoryNames :
          ret' = [fn |-> "map_score", category |-> category,
                  out |-> map_score(arg, category)]
    /\ UNCHANGED <<arg, pipeline_vars>>

CallScoreToStatus ==
    /\ ret = NoCall
    /\ arg \in ScoreValues
    /\ ret' = [fn |-> "score_to_status", out |-> score_to_status(arg)]
    /\ UNCHANGED <<arg, pipeline_vars>>

CallMapStatus ==
    /\ ret = NoCall
    /\ arg \in ScoreValues
    /\ ret' = [fn |-> "map_status", out |-> map_status(arg)]
    /\ UNCHANGED <<arg, pipeline_vars>>

NextUnit ==
    \/ CallCoerceScore
    \/ CallMapScore
    \/ CallScoreToStatus
    \/ CallMapStatus

SpecUnit == InitUnit /\ [][NextUnit]_vars

---------------------------------------------------------------------------
(* Claims about the helper functions, checked under SpecUnit *)

\* The finite numbers a raw value stands for: an int or a float cell is its own
\* value, a text cell the number its spelling is listed with in NumericTexts.
NumericOf(val) ==
    CASE val.t = "int" -> {[n |-> val.v, d |-> 1]}
      [] val.t = "float" -> {[n |-> val.n, d |-> val.d]}
      [] val.t = "str" -> {[n |-> x.n, d |-> x.d] : x \in {y \in NumericTexts : y.s = val.s}}
      [] OTHER -> {}

Abs(x) == IF x < 0 THEN 0 - x ELSE x

\* k is an integer nearest to n/d.
IsNearestInteger(k, n, d) == 2 * Abs(n - k * d) <= d

Clamp13(k) == IF k < 1 THEN 1 ELSE IF k > 3 THEN 3 ELSE k

\* C1: for every numeric raw observation v (an int, a float, or a number given
\* as text), coerce_score returns a level in {1,2,3} that is clamp(k, 1, 3) for
\* an integer k nearest to v; 0 gives 1 and 4 gives 3.
C1_NumericClamped ==
    ret.fn = "coerce_score" =>
        \A q \in NumericOf(arg) :
            /\ ret.out.t = "int"
            /\ ret.out.v \in 1..3
            /\ \E k \in ((q.n \div q.d) - 1)..((q.n \div q.d) + 1) :
                  /\ IsNearestInteger(k, q.n, q.d)
                  /\ ret.out.v = Clamp13(k)
            /\ (q.n = 0 => ret.out.v = 1)
            /\ (q.n = 4 * q.d => ret.out.v = 3)

\* C1 witness: the text "4", a number above the scale, was normalised to 3.
C1_Witness ==
    /\ ret.fn = "coerce_score"
    /\ arg = PyStr(<<"4">>)
    /\ ret.out = PyInt(3)

\* The whole number a score stands for, or "UNKNOWN" for a missing score.
LevelOf(score) ==
    IF score.t \in {"None", "NaN"} THEN [known |-> FALSE]
    ELSE [known |-> TRUE, level |-> NumN(score) \div NumD(score)]

\* The status names of dashboard.py and of dashboard_pivot.py, by level.
StatusNames(fn) ==
    IF fn = "score_to_status" THEN <<"RED", "AMBER", "GREEN">>
    ELSE <<"Need Action", "Caution", "Okay">>

\* C7: the status is decided by the level alone: level 1 gives RED / Need
\* Action, level 2 AMBER / Caution, level 3 GREEN / Okay, and a missing level
\* or any other whole number gives UNKNOWN.
C7_StatusByLevel ==
    ret.fn \in {"score_to_status", "map_status"} =>
        LET l == LevelOf(arg)
        IN  IF l.known /\ l.level \in 1..3
            THEN ret.out = StatusNames(ret.fn)[l.level]
            ELSE ret.out = "UNKNOWN"

\* C7 witness: score_to_status was applied to the float level 1.0 and said RED.
C7_Witness ==
    /\ ret.fn = "score_to_status"
    /\ arg = PyFloat(1, 1)
    /\ ret.out = "RED"

\* The categories that have an entry in SCORE_MAPPINGS.
MappedCategories == {"VIBRATION", "OIL ANALYSIS", "TEMPERATURE", "OTHER INSPECTION"}

\* C8: the normalisers are total over raw values: no call raises, and a missing
\* value, an empty or unrecognised text and a "not applicable" label give None
\* (UNKNOWN), in coerce_score and in map_score for each mapped category.
C8_NormalizerTotal ==
    (\/ ret.fn = "coerce_score"
     \/ ret.fn = "map_score" /\ ret.category \in MappedCategories) =>
        /\ ret.out.t # "raise"
        /\ (\/ arg \in {None, NaN}
            \/ arg \in {PyStr(s) : s \in UnknownTexts \cup NotApplicableTexts})
                => ret.out = None

\* C8 witness: map_score met the label "Not Applicable" and returned None.
C8_Witness ==
    /\ ret.fn = "map_score"
    /\ ret.category = "VIBRATION"
    /\ arg = PyStr(<<"N","o","t"," ","A","p","p","l","i","c","a","b","l","e">>)
    /\ ret.out = None

\* C9: when SCORE_MAPPINGS has no entry for the category, map_score returns
\* None (UNKNOWN) for every raw value instead of raising.
C9_MissingCategoryUnknown ==
    ret.fn = "map_score" /\ ret.category \notin MappedCategories => ret.out = None

---------------------------------------------------------------------------
(* The scripts as pipelines over the DataFrame df *)

\* The calendar days of the model are 0..MaxDay.
MaxDay == 1
Days == 0..MaxDay

\* The value of st.date_input: a pair (start, end) with start <= end, or a
\* single date while the user has picked only the start of the range.
DateInputs == {p \in Days \X Days : p[1] <= p[2]} \cup {<<a>> : a \in Days}

\* A frame built row by row: the sequence of f(i) for the row positions i.
MapRows(rows, f(_)) == [i \in 1..Len(rows) |-> f(i)] \o <<>>

\* frame[col] = values: the rows with the column col set to vals, row by row.
SetColumn(rows, col, vals) ==
    MapRows(rows, LAMBDA i : (col :> vals[i]) @@ rows[i])

\* The calendar days on which df has a valid DATE.
ValidDays(rows) == {dt_date(rows[i].DATE) : i \in {j \in 1..Len(rows) : notna(rows[j].DATE)}}


\* (frame["DATE"] >= pd.Timestamp(start)) & (frame["DATE"] <= pd.Timestamp(end)):
\* comparisons with NaT are False.
TimestampMask(r, start, end) ==
    /\ notna(r.DATE)
    /\ r.DATE.v >= Timestamp(start).v
    /\ r.DATE.v <= Timestamp(end).v

\* (frame["DATE"].dt.date >= start) & (frame["DATE"].dt.date <= end)
DateMask(r, start, end) ==
    /\ notna(r.DATE)
    /\ dt_date(r.DATE) >= start
    /\ dt_date(r.DATE) <= end

\* What a script shows with st.caption, st.warning and st.info (a text) and
\* with st.metric (a label and a number).
Caption(text) == [widget |-> "caption", label |-> text]
Warning(text) == [widget |-> "warning", label |-> text]
Info(text) == [widget |-> "info", label |-> text]
Metric(label, value) == [widget |-> "metric", label |-> label, value |-> value]

(* dashboard.py *)

\* Lines 114-121: load_scorecard, drop the rows without an equipment, parse DATE.
D_Load ==
    /\ script = "dashboard"
    /\ pc = "start"
    /\ df' = LET kept == SelectSeq(df, LAMBDA r : notna(r.EQUIPMENT))
             IN  MapRows(kept, LAMBDA i : [kept[i] EXCEPT !.DATE = to_datetime(@)])
    /\ pc' = "date_filter"
    /\ UNCHANGED <<sheet, notices, views, arg, ret, script, date_range, system_scores, area_scores, filtered_df_display>>

\* Lines 127-138: the date range picker, bounded by the first and the last
\* day of the data, and the mask on DATE.
D_DateFilter ==
    /\ script = "dashboard"
    /\ pc = "date_filter"
    /\ ValidDays(df) # {}
    /\ \E start_date \in Days, end_date \in Days :
          /\ MinOfSet(ValidDays(df)) <= start_date
          /\ start_date <= end_date
          /\ end_date <= MaxOfSet(ValidDays(df))
          /\ date_range' = <<start_date, end_date>>
          /\ df' = SelectSeq(df, LAMBDA r : TimestampMask(r, start_date, end_date))
    /\ pc' = "key_filter"
    /\ UNCHANGED <<sheet, notices, views, arg, ret, script, system_scores, area_scores, filtered_df_display>>

\* Line 131: while only the start of the range is picked, st.sidebar.date_input
\* returns a 1-tuple and the unpacking into start_date, end_date raises
\* ValueError: the script run stops.
D_DateInputIncomplete ==
    /\ script = "dashboard"
    /\ pc = "date_filter"
    /\ ValidDays(df) # {}
    /\ \E start_date \in Days :
          /\ MinOfSet(ValidDays(df)) <= start_date
          /\ start_date <= MaxOfSet(ValidDays(df))
          /\ date_range' = <<start_date>>
    /\ pc' = "crashed"
    /\ UNCHANGED <<sheet, notices, views, arg, ret, script, df, system_scores, area_scores, filtered_df_display>>

\* Lines 139-140: no valid date, the date filter is skipped.
D_DateFilterSkipped ==
    /\ script = "dashboard"
    /\ pc = "date_filter"
    /\ ValidDays(df) = {}
    /\ notices' = Append(notices, Caption("No valid dates detected; skipping date filter."))
    /\ pc' = "key_filter"
    /\ UNCHANGED <<sheet, views, arg, ret, script, df, date_range, system_scores, area_scores,
                   filtered_df_display>>

\* Lines 143-156: the three multiselects offer the values present (missing
\* ones dropped) and the rows whose three keys are all selected are kept.
D_KeyFilter ==
    /\ script = "dashboard"
    /\ pc = "key_filter"
    /\ LET areas == {x \in Cells(df, "AREA") : notna(x)}
           systems == {x \in Cells(df, "SYSTEM") : notna(x)}
           equipments == {x \in Cells(df, "EQUIPMENT") : notna(x)}
       IN  \E sel_areas \in SUBSET areas, sel_systems \in SUBSET systems,
              sel_equips \in SUBSET equipments :
                df' = SelectSeq(df, LAMBDA r : /\ r.AREA \in sel_areas
                                               /\ r.SYSTEM \in sel_systems
                                               /\ r.EQUIPMENT \in sel_equips)
    /\ pc' = "score"
    /\ UNCHANGED <<sheet, notices, views, arg, ret, script, date_range, system_scores, area_scores, filtered_df_display>>

\* column.apply(f) with the dtype pandas infers for the result.
ApplyColumn(rows, col, f(_)) == InferColumn(MapRows(rows, LAMBDA i : f(rows[i][col])))

\* The columns coerce_score is applied to (lines 161-167) and the columns
\* that receive the result.
D_ScoredCols == <<"VIBRATION", "OIL_ANALYSIS", "TEMPERATURE", "OTHER_INSPECTION", "CMS">>

D_ScoreColNames ==
    <<"VIBRATION_SCORE", "OIL_ANALYSIS_SCORE", "TEMPERATURE_SCORE",
      "OTHER_INSPECTION_SCORE", "CMS_INPUT">>

\* The position of x in a sequence without repetition.
Pos(seq, x) == CHOOSE j \in 1..Len(seq) : seq[j] = x

\* element_score_cols (line 170)
D_ElementScoreCols ==
    <<"VIBRATION_SCORE", "OIL_ANALYSIS_SCORE", "TEMPERATURE_SCORE", "OTHER_INSPECTION_SCORE">>

\* frame[element_score_cols].min(axis=1, skipna=True) for one row (line 177).
row_min(r) == AsFloat(SkipNaMin({r[D_ElementScoreCols[j]] : j \in 1..Len(D_ElementScoreCols)}))

\* row_min.where(row_min.notna(), frame["CMS_INPUT"]) for one row (line 178).
equip_score(r) == IF notna(row_min(r)) THEN row_min(r) ELSE AsFloat(r.CMS_INPUT)

\* Lines 160-167: the element scores and CMS_INPUT.
D_Score ==
    /\ script = "dashboard"
    /\ pc = "score"
    /\ LET columns == MapRows(D_ScoredCols,
                        LAMBDA j : ApplyColumn(df, D_ScoredCols[j], coerce_score))
       IN  df' = MapRows(df, LAMBDA i :
                    [c \in Names(D_ScoreColNames) |->
                        columns[Pos(D_ScoreColNames, c)][i]] @@ df[i])
    /\ pc' = "equip_score"
    /\ UNCHANGED <<sheet, notices, views, arg, ret, script, date_range, system_scores, area_scores, filtered_df_display>>

\* Lines 169-180: EQUIP_SCORE and EQUIP_STATUS.
D_EquipScore ==
    /\ script = "dashboard"
    /\ pc = "equip_score"
    /\ df' = MapRows(df, LAMBDA i :
                [EQUIP_SCORE |-> equip_score(df[i]),
                 EQUIP_STATUS |-> score_to_status(equip_score(df[i]))] @@ df[i])
    /\ pc' = "aggregate"
    /\ UNCHANGED <<sheet, notices, views, arg, ret, script, date_range, system_scores, area_scores, filtered_df_display>>

\* Lines 183-190: sys_scores and area_scores with their statuses.
D_Aggregate ==
    /\ script = "dashboard"
    /\ pc = "aggregate"
    /\ LET sys == GroupByMin(df, <<"AREA", "SYSTEM">>, "EQUIP_SCORE")
           area == GroupByMin(sys, <<"AREA">>, "EQUIP_SCORE")
       IN  /\ system_scores' = SetColumn(sys, "SYSTEM_STATUS",
                    MapRows(sys, LAMBDA i : score_to_status(sys[i].EQUIP_SCORE)))
           /\ area_scores' = SetColumn(area, "AREA_STATUS",
                    MapRows(area, LAMBDA i : score_to_status(area[i].EQUIP_SCORE)))
    /\ pc' = "render"
    /\ UNCHANGED <<sheet, notices, views, arg, ret, script, df, date_range, filtered_df_display>>

\* (frame["EQUIP_STATUS"] == status).sum()
CountStatus(rows, status) ==
    Cardinality({i \in 1..Len(rows) : rows[i].EQUIP_STATUS = status})

\* Lines 194-201: the four KPI metrics; the last one is the text
\* "RED | AMBER | GREEN" of the three status counts.
D_KPIs ==
    /\ script = "dashboard"
    /\ pc = "render"
    /\ notices' = notices \o
            <<Metric("Equipments (filtered)", Len(df)),
              Metric("Systems (filtered)", Len(system_scores)),
              Metric("Areas (filtered)", Len(area_scores)),
              [widget |-> "metric", label |-> "Equip RED | AMBER | GREEN",
               counts |-> <<CountStatus(df, "RED"), CountStatus(df, "AMBER"),
                            CountStatus(df, "GREEN")>>]>>
    /\ pc' = "done"
    /\ UNCHANGED <<sheet, views, arg, ret, script, df, date_range, system_scores, area_scores,
                   filtered_df_display>>

(* dashboard2.py and dashboard3.py: the same code up to the aggregation *)

\* Lines 75-95 of dashboard2.py (52-68 of dashboard3.py): read the sheet and
\* parse DATE.  (The columns "OIL ANALYSIS", "OTHER INSPECTION", "EQUIPMENT
\* DESCRIPTION" and "CONDITION MONITORING SCORE" of the sheet are the fields
\* OIL_ANALYSIS, OTHER_INSPECTION, EQUIPMENT and CMS of the rows.)
D2_Load ==
    /\ script \in {"dashboard2", "dashboard3"}
    /\ pc = "start"
    /\ df' = MapRows(df, LAMBDA i : [df[i] EXCEPT !.DATE = to_datetime(@)])
    /\ pc' = "score"
    /\ UNCHANGED <<sheet, notices, views, arg, ret, script, date_range, system_scores, area_scores, filtered_df_display>>

\* frame[col].apply(lambda x: map_score(x, category))
MapScoreColumn(rows, col, category) ==
    InferColumn(MapRows(rows, LAMBDA i : map_score(rows[i][col], category)))

\* Lines 98-104 of dashboard2.py (71-77 of dashboard3.py): the four category
\* scores and CALCULATED_SCORE = frame.apply(aggregate_score, axis=1).
D2_Score ==
    /\ script \in {"dashboard2", "dashboard3"}
    /\ pc = "score"
    /\ LET d1 == SetColumn(df, "VIBRATION_SCORE", MapScoreColumn(df, "VIBRATION", "VIBRATION"))
           d2 == SetColumn(d1, "OIL_SCORE", MapScoreColumn(df, "OIL_ANALYSIS", "OIL ANALYSIS"))
           d3 == SetColumn(d2, "TEMP_SCORE", MapScoreColumn(df, "TEMPERATURE", "TEMPERATURE"))
           d4 == SetColumn(d3, "OTHER_SCORE",
                           MapScoreColumn(df, "OTHER_INSPECTION", "OTHER INSPECTION"))
       IN  df' = SetColumn(d4, "CALCULATED_SCORE",
                           InferColumn(MapRows(d4, LAMBDA i : aggregate_score(d4[i]))))
    /\ pc' = "date_filter"
    /\ UNCHANGED <<sheet, notices, views, arg, ret, script, date_range, system_scores, area_scores, filtered_df_display>>

\* Lines 107-111 of dashboard2.py (80-84 of dashboard3.py): the date range
\* picker, not bounded by the data, and the mask on DATE; a single date leaves
\* the frame unfiltered.
D2_DateFilter ==
    /\ script \in {"dashboard2", "dashboard3"}
    /\ pc = "date_filter"
    /\ ValidDays(df) # {}
    /\ \E picked \in DateInputs :
          /\ date_range' = picked
          /\ df' = IF Len(picked) = 2
                   THEN SelectSeq(df, LAMBDA r : TimestampMask(r, picked[1], picked[2]))
                   ELSE df
    /\ pc' = "aggregate"
    /\ UNCHANGED <<sheet, notices, views, arg, ret, script, system_scores, area_scores, filtered_df_display>>

\* Lines 107-108 without a valid date: min_date and max_date are NaT and are
\* handed to st.date_input as its default.  What the widget does with NaT is
\* not code of this repository; the outcomes kept here are an exception that
\* stops the run, a range that keeps no row, and no range at all.
D2_DateInputNaT ==
    /\ script \in {"dashboard2", "dashboard3"}
    /\ pc = "date_filter"
    /\ ValidDays(df) = {}
    /\ \E outcome \in {"raises", "empty", "unfiltered"} :
          /\ pc' = IF outcome = "raises" THEN "crashed" ELSE "aggregate"
          /\ df' = IF outcome = "empty" THEN <<>> ELSE df
    /\ UNCHANGED <<sheet, notices, views, arg, ret, script, date_range, system_scores, area_scores, filtered_df_display>>

\* Lines 114-115 of dashboard2.py (87-88 of dashboard3.py).
D2_Aggregate ==
    /\ script \in {"dashboard2", "dashboard3"}
    /\ pc = "aggregate"
    /\ system_scores' = GroupByMin(df, <<"AREA", "SYSTEM">>, "CALCULATED_SCORE")
    /\ area_scores' = GroupByMin(system_scores', <<"AREA">>, "CALCULATED_SCORE")
    /\ pc' = IF script = "dashboard3" THEN "fill_zero" ELSE "render"
    /\ UNCHANGED <<sheet, notices, views, arg, ret, script, df, date_range, filtered_df_display>>

\* column.fillna(0).astype(int) on one cell.
fillna0_astype_int(x) == IF isna(x) THEN PyInt(0) ELSE PyInt(PyTrunc(x))

FillZero(rows, col) ==
    SetColumn(rows, col, MapRows(rows, LAMBDA i : fillna0_astype_int(rows[i][col])))

\* Lines 91-92 of dashboard3.py: "Replace NaN with 0" in both tables.
D3_FillZero ==
    /\ script = "dashboard3"
    /\ pc = "fill_zero"
    /\ area_scores' = FillZero(area_scores, "CALCULATED_SCORE")
    /\ system_scores' = FillZero(system_scores, "CALCULATED_SCORE")
    /\ pc' = "display"
    /\ UNCHANGED <<sheet, notices, views, arg, ret, script, df, date_range, filtered_df_display>>

\* Lines 150-155 of dashboard3.py: the system picked in the selectbox (the
\* first option until the user picks another), its rows, and their scores
\* with fillna(0).astype(int).  sorted() of the systems raises TypeError when
\* a missing SYSTEM (a float nan) stands next to a text one; without any
\* option the selection is None and no row is shown.
D3_Display ==
    /\ script = "dashboard3"
    /\ pc = "display"
    /\ LET systems == Cells(df, "SYSTEM")
       IN  IF Cardinality(systems) > 1 /\ \E x \in systems : isna(x)
           THEN /\ pc' = "crashed"
                /\ UNCHANGED <<filtered_df_display, selected_system>>
           ELSE /\ pc' = "render"
                /\ \/ /\ systems = {}
                      /\ selected_system' = None
                      /\ filtered_df_display' = <<>>
                   \/ /\ selected_system' \in systems
                      /\ filtered_df_display' =
                            FillZero(SelectSeq(df, LAMBDA r : /\ notna(r.SYSTEM)
                                                              /\ r.SYSTEM = selected_system'),
                                     "CALCULATED_SCORE")
    /\ UNCHANGED <<arg, ret, script, df, date_range, system_scores, area_scores,
                   sheet, notices, trend_df, latest_for_pie, latest_equipment_status,
                   detail_df, selected_equip_name, aggregated_df>>

\* Lines 167-193 of dashboard3.py: the equipment selectbox, whose sorted()
\* raises TypeError when a missing EQUIPMENT DESCRIPTION (a float nan) stands
\* next to a text one among the rows of the selected system, and trend_df,
\* the minimum CALCULATED_SCORE of each (DATE, SYSTEM).
D3_Trend ==
    /\ script = "dashboard3"
    /\ pc = "render"
    /\ LET equipments == Cells(filtered_df_display, "EQUIPMENT")
       IN  IF Cardinality(equipments) > 1 /\ \E x \in equipments : isna(x)
           THEN /\ pc' = "crashed"
                /\ UNCHANGED trend_df
           ELSE /\ pc' = "done"
                /\ trend_df' = GroupByMin(df, <<"DATE", "SYSTEM">>, "CALCULATED_SCORE")
    /\ UNCHANGED <<arg, ret, script, df, date_range, system_scores, area_scores,
                   filtered_df_display, sheet, notices, latest_for_pie,
                   latest_equipment_status, selected_system, detail_df,
                   selected_equip_name, aggregated_df>>

(* dashboard_pivot.py *)

\* Line 110: the warning shown when the date filter leaves no row.
NO_DATA_WARNING == Warning("No data available for the selected date range.")

\* Lines 317 and 314: what is shown in place of the details while no system
\* and no equipment is selected.
CLICK_A_SYSTEM == Info("Click a system above to see its latest equipment details.")
SELECT_AN_EQUIPMENT ==
    Info("Select a piece of equipment from the table above to see its latest details.")

\* column.str.strip().str.upper() on one cell: a cell that is no text
\* becomes nan.
str_strip_upper(x) == IF x.t = "str" THEN PyStr(upper(strip(x.s))) ELSE NaN

\* Lines 82-92: SCORE from the overall score, DATE, and the cleaned keys.
P_Clean(r) ==
    [AREA |-> str_strip_upper(r.AREA),
     SYSTEM |-> str_strip_upper(r.SYSTEM),
     EQUIPMENT |-> str_strip_upper(r.EQUIPMENT),
     DATE |-> to_datetime(r.DATE),
     SCORE |-> to_numeric(r.CMS),
     VIBRATION |-> r.VIBRATION,
     OIL_ANALYSIS |-> r.OIL_ANALYSIS,
     TEMPERATURE |-> r.TEMPERATURE,
     OTHER_INSPECTION |-> r.OTHER_INSPECTION]

\* Line 94: dropna(subset=[AREA, SYSTEM, EQUIPMENT DESCRIPTION, DATE, SCORE]).
P_Complete(r) ==
    /\ notna(r.AREA)
    /\ notna(r.SYSTEM)
    /\ notna(r.EQUIPMENT)
    /\ notna(r.DATE)
    /\ notna(r.SCORE)

\* Lines 78-97: clean, drop the incomplete rows, SCORE.astype(int), keep the
\* scores 1, 2 and 3, and EQUIP_STATUS.
P_Load ==
    /\ script = "pivot"
    /\ pc = "start"
    /\ LET cleaned == MapRows(df, LAMBDA i : P_Clean(df[i]))
           complete == SelectSeq(cleaned, P_Complete)
           ints == MapRows(complete,
                           LAMBDA i : [complete[i] EXCEPT !.SCORE = PyInt(PyTrunc(@))])
           kept == SelectSeq(ints, LAMBDA r : r.SCORE.v \in {1, 2, 3})
       IN  df' = SetColumn(kept, "EQUIP_STATUS",
                           MapRows(kept, LAMBDA i : map_status(kept[i].SCORE)))
    /\ pc' = "date_filter"
    /\ UNCHANGED <<sheet, notices, views, arg, ret, script, date_range, system_scores, area_scores, filtered_df_display>>

\* Lines 102-111: the date range picker and the mask on the calendar day of
\* DATE; a single date leaves the frame unfiltered; an empty result ends the
\* run with a warning.
P_DateFilter ==
    /\ script = "pivot"
    /\ pc = "date_filter"
    /\ df # <<>>
    /\ \E picked \in DateInputs :
          /\ date_range' = picked
          /\ df' = IF Len(picked) = 2
                   THEN SelectSeq(df, LAMBDA r : DateMask(r, picked[1], picked[2]))
                   ELSE df
    /\ pc' = IF df' = <<>> THEN "stopped" ELSE "aggregate"
    /\ notices' = IF df' = <<>> THEN Append(notices, NO_DATA_WARNING) ELSE notices
    /\ UNCHANGED <<sheet, views, arg, ret, script, system_scores, area_scores, filtered_df_display>>

\* Line 102 when no row is left after cleaning: DATE.min() is NaT and
\* NaT.date() either raises or hands NaT on to the widget; if the run goes on
\* it ends at the warning of lines 109-111.
P_NoData ==
    /\ script = "pivot"
    /\ pc = "date_filter"
    /\ df = <<>>
    /\ pc' \in {"crashed", "stopped"}
    /\ notices' = IF pc' = "stopped" THEN Append(notices, NO_DATA_WARNING) ELSE notices
    /\ UNCHANGED <<sheet, views, arg, ret, script, df, date_range, system_scores, area_scores,
                   filtered_df_display>>

\* Lines 114-115.
P_Aggregate ==
    /\ script = "pivot"
    /\ pc = "aggregate"
    /\ system_scores' = GroupByMin(df, <<"AREA", "SYSTEM">>, "SCORE")
    /\ area_scores' = GroupByMin(system_scores', <<"AREA">>, "SCORE")
    /\ pc' = "render"
    /\ UNCHANGED <<sheet, notices, views, arg, ret, script, df, date_range, filtered_df_display>>

\* The columns GroupBy.last() fills in latest_for_pie (every column of the
\* frame but the key).
P_PieCols ==
    <<"AREA", "SYSTEM", "DATE", "SCORE", "EQUIP_STATUS",
      "VIBRATION", "OIL_ANALYSIS", "TEMPERATURE", "OTHER_INSPECTION">>

\* Lines 132 and 180: the two snapshots of the date-filtered frame sorted by
\* DATE.  latest_for_pie holds the last row of each EQUIPMENT DESCRIPTION
\* (line 133 counts its rows by AREA and EQUIP_STATUS for the pie charts) and
\* latest_equipment_status the last EQUIP_STATUS of each (EQUIPMENT
\* DESCRIPTION, SYSTEM) (lines 181-191 count its rows by SYSTEM and status
\* for the explorer grid).  Both statements sort the same frame by the same
\* column, so they get the same order.  While no row of the explorer grid is
\* selected the run ends at the st.info of line 317.
P_Latest ==
    /\ script = "pivot"
    /\ pc = "render"
    /\ \E order \in SortOrders(df, TRUE) :
          /\ latest_for_pie' = GroupByLast(TakeRows(df, order), <<"EQUIPMENT">>, P_PieCols)
          /\ latest_equipment_status' =
                GroupByLast(TakeRows(df, order), <<"EQUIPMENT", "SYSTEM">>, <<"EQUIP_STATUS">>)
    /\ notices' = Append(notices, CLICK_A_SYSTEM)
    /\ pc' = "select_system"
    /\ UNCHANGED <<arg, ret, script, df, date_range, system_scores, area_scores,
                   filtered_df_display, sheet, trend_df,
                   selected_system, detail_df, selected_equip_name, aggregated_df>>

\* Lines 217-226: a row of the explorer grid is selected (the grid has one row
\* per SYSTEM of the date-filtered frame); detail_df is the first row of each
\* EQUIPMENT DESCRIPTION among the rows of that system sorted by DATE,
\* latest first, with STATUS = map_status(SCORE).  The st.info of line 317
\* is no longer shown; while no row of the detail grid is selected the run
\* ends at the st.info of line 314.
P_SelectSystem ==
    /\ script = "pivot"
    /\ pc = "select_system"
    /\ selected_system' \in Cells(df, "SYSTEM")
    /\ LET of_system == SelectSeq(df, LAMBDA r : r.SYSTEM = selected_system')
       IN  \E order \in SortOrders(of_system, FALSE) :
              detail_df' =
                  MapRows(drop_duplicates(TakeRows(of_system, order), "EQUIPMENT"),
                          LAMBDA i : ("STATUS" :> map_status(
                              drop_duplicates(TakeRows(of_system, order), "EQUIPMENT")[i].SCORE))
                              @@ drop_duplicates(TakeRows(of_system, order), "EQUIPMENT")[i])
    /\ notices' = Append(SubSeq(notices, 1, Len(notices) - 1), SELECT_AN_EQUIPMENT)
    /\ pc' = "select_equipment"
    /\ UNCHANGED <<arg, ret, script, df, date_range, system_scores, area_scores,
                   filtered_df_display, sheet, trend_df, latest_for_pie,
                   latest_equipment_status, selected_equip_name, aggregated_df>>

\* Lines 241-273: a row of the detail grid is selected; the performance trend
\* shown for it is aggregated_df = df_equip.loc[idx], where df_equip holds the
\* rows of the selected system and idx the row of the lowest SCORE of each
\* DATE.  (df_equip is never empty here: the selected system is one of the
\* frame.)  The st.info of line 314 is no longer shown.
P_SelectEquipment ==
    /\ script = "pivot"
    /\ pc = "select_equipment"
    /\ selected_equip_name' \in Cells(detail_df, "EQUIPMENT")
    /\ LET df_equip == SelectSeq(df, LAMBDA r : r.SYSTEM = selected_system)
       IN  aggregated_df' = TakeRows(df_equip, GroupByIdxMin(df_equip, "DATE", "SCORE"))
    /\ notices' = SubSeq(notices, 1, Len(notices) - 1)
    /\ pc' = "done"
    /\ UNCHANGED <<arg, ret, script, df, date_range, system_scores, area_scores,
                   filtered_df_display, sheet, trend_df, latest_for_pie,
                   latest_equipment_status, selected_system, detail_df>>

---------------------------------------------------------------------------
(* The sheets the scripts are run on *)

Row(area, system, equipment, date, cms, vibration, oil, temperature, other) ==
    [AREA |-> area, SYSTEM |-> system, EQUIPMENT |-> equipment, DATE |-> date,
     CMS |-> cms, VIBRATION |-> vibration, OIL_ANALYSIS |-> oil,
     TEMPERATURE |-> temperature, OTHER_INSPECTION |-> other]

AREA_A == PyStr(<<"A">>)
AREA_B == PyStr(<<"B">>)
SYSTEM_S1 == PyStr(<<"S","1">>)
SYSTEM_S2 == PyStr(<<"S","2">>)
EQUIPMENT_E1 == PyStr(<<"E","1">>)
EQUIPMENT_E2 == PyStr(<<"E","2">>)

TEXT_OK == PyStr(<<"O","K">>)
TEXT_NEED_ACTION_LOWER == PyStr(<<"n","e","e","d"," ","a","c","t","i","o","n">>)
TEXT_GOOD_LOWER == PyStr(<<"g","o","o","d">>)
TEXT_WARNING == PyStr(<<"w","a","r","n","i","n","g">>)
TEXT_GOOD == PyStr(<<"G","o","o","d">>)
TEXT_ALERT == PyStr(<<"A","l","e","r","t">>)
TEXT_NEED_ACTION == PyStr(<<"N","e","e","d"," ","A","c","t","i","o","n">>)
TEXT_NO_DATE == PyStr(<<"n","/","a">>)

\* All sequences over S of length k, and of length 0..n.
RECURSIVE SeqsOfLen(_, _)
SeqsOfLen(S, k) ==
    IF k = 0 THEN {<<>>}
    ELSE {Append(s, x) : s \in SeqsOfLen(S, k - 1), x \in S}

SeqsUpTo(S, n) == UNION {SeqsOfLen(S, k) : k \in 0..n}

\* All sequences over S of length k, and of length 0..n, whose items are
\* listed in the order of their rank (a function on S).
RECURSIVE RankedSeqsOfLen(_, _, _)
RankedSeqsOfLen(S, rank, k) ==
    IF k = 0 THEN {<<>>}
    ELSE UNION {{Append(s, x) : x \in {y \in S : s = <<>> \/ rank[s[Len(s)]] <= rank[y]}} :
                    s \in RankedSeqsOfLen(S, rank, k - 1)}

RankedSeqsUpTo(S, rank, n) == UNION {RankedSeqsOfLen(S, rank, k) : k \in 0..n}

\* Sheets for the classification of one equipment: the first row takes every
\* combination of blank and labelled category cells and of overall scores;
\* it is followed by up to MaxCompanions rows, each either fully labelled or
\* the first row with another overall score.
MaxCompanions == 1

ClassifyRows ==
    {Row(AREA_A, SYSTEM_S1, EQUIPMENT_E1, Ts(0), cms, v, o, t, x) :
        cms \in {NaN, PyInt(1), PyInt(3)},
        v \in {NaN, TEXT_OK},
        o \in {NaN, TEXT_NEED_ACTION_LOWER},
        t \in {NaN, TEXT_GOOD_LOWER, TEXT_WARNING},
        x \in {NaN, TEXT_GOOD}}

CompanionRows(r) ==
    {Row(AREA_A, SYSTEM_S1, EQUIPMENT_E1, Ts(0), PyInt(3),
         TEXT_OK, TEXT_NEED_ACTION_LOWER, TEXT_GOOD_LOWER, TEXT_GOOD),
     [r EXCEPT !.CMS = PyInt(1)],
     [r EXCEPT !.CMS = NaN]}

ClassifyDatasets ==
    UNION {{<<r>> \o rest : rest \in SeqsUpTo(CompanionRows(r), MaxCompanions)} :
                r \in ClassifyRows}

\* Sheets for the roll-up: up to MaxRollupRows rows spread over an area of
\* two systems and of equipment without a system and a second area of one
\* system, each row with a level of 1 or 3 or none, written both as the
\* OTHER INSPECTION label and as the overall score.  The rows are listed
\* area by area and, within an area, system by system.
MaxRollupRows == 3

RollupLevels ==
    {[cms |-> NaN, other |-> NaN],
     [cms |-> PyInt(1), other |-> TEXT_NEED_ACTION],
     [cms |-> PyInt(3), other |-> TEXT_GOOD]}

\* The (area, system) keys of the rows, in the listing order of the sheet.
RollupKeys ==
    <<[area |-> AREA_A, system |-> SYSTEM_S1],
      [area |-> AREA_A, system |-> SYSTEM_S2],
      [area |-> AREA_A, system |-> NaN],
      [area |-> AREA_B, system |-> SYSTEM_S1]>>

RollupRows ==
    {Row(RollupKeys[k].area, RollupKeys[k].system, EQUIPMENT_E1, Ts(0),
         l.cms, NaN, NaN, NaN, l.other) :
        k \in DOMAIN RollupKeys, l \in RollupLevels}

\* The position of a row's keys in the listing order of the sheet.
KeyRank(r) ==
    CHOOSE k \in DOMAIN RollupKeys :
        RollupKeys[k] = [area |-> r.AREA, system |-> r.SYSTEM]

RollupDatasets ==
    RankedSeqsUpTo(RollupRows, [r \in RollupRows |-> KeyRank(r)], MaxRollupRows)

\* Sheets for the date filter: up to MaxDateRows rows of one equipment at
\* level 2 whose DATE cell is blank, a text that is no date, or a datetime
\* at any tick of the days 0..MaxDay.  The rows are listed in date order,
\* the rows without a date first.
MaxDateRows == 2

DateCells ==
    {NaN, TEXT_NO_DATE} \cup {Ts(v) : v \in 0..((MaxDay + 1) * TicksPerDay - 1)}

DateRows ==
    {Row(AREA_A, SYSTEM_S1, EQUIPMENT_E1, d, PyInt(2), NaN, NaN, NaN, TEXT_ALERT) :
        d \in DateCells}

\* The position of a row's DATE cell in the listing order of the sheet.
DateRank(r) ==
    CASE r.DATE.t = "NaN" -> 0
      [] r.DATE.t = "str" -> 1
      [] OTHER -> r.DATE.v + 2

DateDatasets ==
    RankedSeqsUpTo(DateRows, [r \in DateRows |-> DateRank(r)], MaxDateRows)

\* Sheets with missing keys: up to MaxKeyRows rows, each with its three keys
\* or with a blank AREA, SYSTEM or EQUIPMENT DESCRIPTION cell, at level 1 or 3.
MaxKeyRows == 2

KeyCells ==
    {[area |-> AREA_A, system |-> SYSTEM_S1, equipment |-> EQUIPMENT_E1],
     [area |-> NaN, system |-> SYSTEM_S1, equipment |-> EQUIPMENT_E1],
     [area |-> AREA_A, system |-> NaN, equipment |-> EQUIPMENT_E1],
     [area |-> AREA_A, system |-> SYSTEM_S1, equipment |-> NaN]}

KnownRollupLevels == {l \in RollupLevels : notna(l.cms)}

MissingKeyRows ==
    {Row(k.area, k.system, k.equipment, Ts(0), l.cms, NaN, NaN, NaN, l.other) :
        k \in KeyCells, l \in KnownRollupLevels}

\* The rows are listed by the key they lack: none, the area, the system,
\* the equipment.
MissingKeyRank(r) ==
    CASE isna(r.AREA) -> 1
      [] isna(r.SYSTEM) -> 2
      [] isna(r.EQUIPMENT) -> 3
      [] OTHER -> 0

MissingKeyDatasets ==
    RankedSeqsUpTo(MissingKeyRows, [r \in MissingKeyRows |-> MissingKeyRank(r)], MaxKeyRows)

\* The sheet of the end-to-end scenario, in both row orders: E1 with
\* VIBRATION "Good", OIL ANALYSIS "Need Action", TEMPERATURE blank and OTHER
\* INSPECTION "Alert" (its overall score blank, 1 or 3), and E2 of the same
\* system with four blank categories and the overall score 3.
ScenarioE1(cms) ==
    Row(AREA_A, SYSTEM_S1, EQUIPMENT_E1, Ts(0), cms,
        TEXT_GOOD, TEXT_NEED_ACTION, NaN, TEXT_ALERT)

ScenarioE2 ==
    Row(AREA_A, SYSTEM_S1, EQUIPMENT_E2, Ts(0), PyInt(3), NaN, NaN, NaN, NaN)

ScenarioDatasets ==
    UNION {{<<ScenarioE1(cms), ScenarioE2>>, <<ScenarioE2, ScenarioE1(cms)>>} :
                cms \in {NaN, PyInt(1), PyInt(3)}}

\* Sheets of one record whose AREA is typed in upper case or in lower case
\* after a blank, and whose overall score is the integer 2, the float 2.5 or
\* the text "2".
TEXT_AREA_UNCLEAN == PyStr(<<" ", "a">>)

RawFieldDatasets ==
    {<<Row(area, SYSTEM_S1, EQUIPMENT_E1, Ts(0), cms, NaN, NaN, NaN, NaN)>> :
        area \in {AREA_A, TEXT_AREA_UNCLEAN},
        cms \in {PyInt(2), PyFloat(25, 10), PyStr(<<"2">>)}}

Datasets ==
    ClassifyDatasets \cup RollupDatasets \cup DateDatasets
        \cup MissingKeyDatasets \cup ScenarioDatasets \cup RawFieldDatasets

\* Sheets for the snapshot and trend views: up to MaxSnapshotRows rows, in
\* any order, of equipment E1 of system S1, E1 of system S2 and E2 of system
\* S1, dated on day 0 or on day 1, at level 1 or 3.
MaxSnapshotRows == 2

SnapshotKeys ==
    {[system |-> SYSTEM_S1, equipment |-> EQUIPMENT_E1],
     [system |-> SYSTEM_S2, equipment |-> EQUIPMENT_E1],
     [system |-> SYSTEM_S1, equipment |-> EQUIPMENT_E2]}

SnapshotRows ==
    {Row(AREA_A, k.system, k.equipment, d, l.cms, NaN, NaN, NaN, l.other) :
        k \in SnapshotKeys, d \in {Timestamp(0), Timestamp(1)}, l \in KnownRollupLevels}

SnapshotDatasets == SeqsUpTo(SnapshotRows, MaxSnapshotRows)

Scripts == {"dashboard", "dashboard2", "dashboard3", "pivot"}

\* A script starts with the sheet read_excel returned and nothing computed.
InitPipeline ==
    /\ arg = None
    /\ ret = NoCall
    /\ script \in Scripts
    /\ pc = "start"
    /\ sheet \in Datasets
    /\ df = sheet
    /\ date_range = <<>>
    /\ system_scores = <<>>
    /\ area_scores = <<>>
    /\ filtered_df_display = <<>>
    /\ notices = <<>>
    /\ NoViews

\* The scripts up to their tables of system and area scores.
NextPipeline ==
    \/ D_Load
    \/ D_DateFilter
    \/ D_DateInputIncomplete
    \/ D_DateFilterSkipped
    \/ D_KeyFilter
    \/ D_Score
    \/ D_EquipScore
    \/ D_Aggregate
    \/ D_KPIs
    \/ D2_Load
    \/ D2_Score
    \/ D2_DateFilter
    \/ D2_DateInputNaT
    \/ D2_Aggregate
    \/ D3_FillZero
    \/ D3_Display
    \/ P_Load
    \/ P_DateFilter
    \/ P_NoData
    \/ P_Aggregate

SpecPipeline == InitPipeline /\ [][NextPipeline]_vars

\* The scripts with views of the latest rows or of the trend.
ViewScripts == {"dashboard3", "pivot"}

InitSnapshot ==
    /\ arg = None
    /\ ret = NoCall
    /\ script \in ViewScripts
    /\ pc = "start"
    /\ sheet \in SnapshotDatasets
    /\ df = sheet
    /\ date_range = <<>>
    /\ system_scores = <<>>
    /\ area_scores = <<>>
    /\ filtered_df_display = <<>>
    /\ notices = <<>>
    /\ NoViews

\* dashboard3.py and dashboard_pivot.py from the sheet to their last view.
NextViews ==
    \/ D2_Load
    \/ D2_Score
    \/ D2_DateFilter
    \/ D2_DateInputNaT
    \/ D2_Aggregate
    \/ D3_FillZero
    \/ D3_Display
    \/ D3_Trend
    \/ P_Load
    \/ P_DateFilter
    \/ P_NoData
    \/ P_Aggregate
    \/ P_Latest
    \/ P_SelectSystem
    \/ P_SelectEquipment

SpecViews == InitSnapshot /\ [][NextViews]_vars

---------------------------------------------------------------------------
(* Claims about the pipelines, checked under SpecPipeline *)

\* The column that holds the equipment level in the running script.
EquipScoreCol ==
    CASE script = "dashboard" -> "EQUIP_SCORE"
      [] script \in {"dashboard2", "dashboard3"} -> "CALCULATED_SCORE"
      [] OTHER -> "SCORE"

\* The columns that hold the four category levels in the running script.
CategoryScoreCols ==
    IF script = "dashboard" THEN D_ElementScoreCols
    ELSE <<"VIBRATION_SCORE", "OIL_SCORE", "TEMP_SCORE", "OTHER_SCORE">>

\* The rows of df once the equipment level has been computed.
ClassifiedRows == {i \in 1..Len(df) : EquipScoreCol \in DOMAIN df[i]}

\* The levels that are known among a set of score cells.
KnownLevels(cells) == {LevelOf(x).level : x \in {y \in cells : LevelOf(y).known}}

CategoryLevels(r) == KnownLevels({r[CategoryScoreCols[j]] : j \in 1..Len(CategoryScoreCols)})

\* The minimum of the known levels among a set of score cells, UNKNOWN when
\* none is known.
MinKnownLevel(cells) ==
    IF KnownLevels(cells) = {} THEN [known |-> FALSE]
    ELSE [known |-> TRUE, level |-> MinOfSet(KnownLevels(cells))]

\* C2: for every record with at least one known category level, the
\* equipment level is exactly the smallest known category level, whichever of
\* the four categories are UNKNOWN.
C2_MinOfKnownCategories ==
    script \in {"dashboard", "dashboard2", "dashboard3"} =>
        \A i \in ClassifiedRows :
            CategoryLevels(df[i]) # {} =>
                LevelOf(df[i][EquipScoreCol]) =
                    [known |-> TRUE, level |-> MinOfSet(CategoryLevels(df[i]))]

\* C3: when all four category levels of a record are UNKNOWN the equipment
\* level is the normalized overall score, and when one is known the overall
\* score has no influence: records with the same category levels have the
\* same equipment level.
C3_FallbackToOverallScore ==
    script \in {"dashboard", "dashboard2", "dashboard3"} =>
        \A i \in ClassifiedRows :
            /\ CategoryLevels(df[i]) = {} =>
                  LevelOf(df[i][EquipScoreCol]) = LevelOf(coerce_score(df[i].CMS))
            /\ \A j \in ClassifiedRows :
                  (/\ CategoryLevels(df[i]) # {}
                   /\ \A k \in 1..Len(CategoryScoreCols) :
                         df[i][CategoryScoreCols[k]] = df[j][CategoryScoreCols[k]])
                  => LevelOf(df[i][EquipScoreCol]) = LevelOf(df[j][EquipScoreCol])

\* The script has just computed system_scores and area_scores.
JustAggregated ==
    \/ script \in {"dashboard", "dashboard2", "pivot"} /\ pc = "render"
    \/ script = "dashboard3" /\ pc = "fill_zero"

\* The rows of a frame whose AREA and SYSTEM are both present, and the
\* (area, system) groups they form.
KeyedRows(rows) == {i \in 1..Len(rows) : notna(rows[i].AREA) /\ notna(rows[i].SYSTEM)}

SystemGroups == {<<df[i].AREA, df[i].SYSTEM>> : i \in KeyedRows(df)}

AreasOfSystems == {system_scores[i].AREA : i \in 1..Len(system_scores)}

PartitionedAreas ==
    {df[i].AREA : i \in {j \in 1..Len(df) : notna(df[j].AREA)}}
        \ {df[i].AREA : i \in {j \in 1..Len(df) : notna(df[j].AREA) /\ isna(df[j].SYSTEM)}}

IsHealthLevel(x) ==
    \/ isna(x)
    \/ /\ x.t \in {"int", "float"}
       /\ \E l \in 1..3 : NumN(x) = l * NumD(x)

ColumnIsHealthLevels(rows, col) ==
    \A i \in 1..Len(rows) : col \in DOMAIN rows[i] => IsHealthLevel(rows[i][col])

\* C6: at every stage every level (category, equipment, system, area, and
\* the scores handed to tables and charts) is 1, 2, 3 or UNKNOWN; 0 is never
\* produced.
C6_LevelsAreHealthLevels ==
    /\ \A j \in 1..Len(CategoryScoreCols) : ColumnIsHealthLevels(df, CategoryScoreCols[j])
    /\ ColumnIsHealthLevels(df, "CMS_INPUT")
    /\ ColumnIsHealthLevels(df, EquipScoreCol)
    /\ ColumnIsHealthLevels(system_scores, EquipScoreCol)
    /\ ColumnIsHealthLevels(area_scores, EquipScoreCol)
    /\ ColumnIsHealthLevels(filtered_df_display, EquipScoreCol)

\* The record has a parseable date whose calendar day d has start <= d <= end.
DatedWithin(r, start, end) ==
    /\ r.DATE.t = "ts"
    /\ start * TicksPerDay <= r.DATE.v
    /\ r.DATE.v < (end + 1) * TicksPerDay

\* C10: a date filter with the range (start, end) keeps exactly the records
\* dated on a day d with start <= d <= end, the records dated on start or on
\* end included, and removes the records without a parseable date.
C10_InclusiveDateFilter ==
    [][(/\ pc = "date_filter"
        /\ pc' \notin {"date_filter", "crashed"}
        /\ Len(date_range') = 2)
       => LET start == date_range'[1]
              end == date_range'[2]
          IN  df' = SelectSeq(df, LAMBDA r : DatedWithin(r, start, end))]_vars

---------------------------------------------------------------------------
(* Claims about the snapshots and the trends *)

\* The latest DATE among the rows.
MaxDate(rows) == MaxOfSet({rows[i].DATE.v : i \in 1..Len(rows)})

\* The snapshot has exactly one record for each key (the cells of keycols)
\* that occurs in the input rows and no record for any other key.
OneRecordPerKey(snapshot, input, keycols) ==
    LET keyof(r) == [j \in 1..Len(keycols) |-> r[keycols[j]]]
    IN  /\ {keyof(snapshot[i]) : i \in 1..Len(snapshot)}
             = {keyof(input[i]) : i \in 1..Len(input)}
        /\ \A i, j \in 1..Len(snapshot) :
              keyof(snapshot[i]) = keyof(snapshot[j]) => i = j

\* The input rows that have the key of the record r.
RowsOfKey(input, r, keycols) ==
    SelectSeq(input, LAMBDA x : \A j \in 1..Len(keycols) : x[keycols[j]] = r[keycols[j]])

\* The rows of the system selected in the explorer grid.
RowsOfSelectedSystem == SelectSeq(df, LAMBDA r : r.SYSTEM = selected_system)

LastOfLatest(input, r, keycols) ==
    LET rows == RowsOfKey(input, r, keycols)
    IN  rows[MaxOfSet({k \in 1..Len(rows) : rows[k].DATE.v = MaxDate(rows)})]

\* C12: when records of one equipment share the latest DATE, the snapshots of
\* dashboard_pivot.py (latest_for_pie and detail_df) keep the last of them in
\* input order, so the status shown for the equipment is fixed by the ordered
\* input.
C12_LastTiedRecordKept ==
    /\ (script = "pivot" /\ pc \in {"select_system", "select_equipment", "done"})
       => \A i \in 1..Len(latest_for_pie) :
             latest_for_pie[i].EQUIP_STATUS
                 = LastOfLatest(df, latest_for_pie[i], <<"EQUIPMENT">>).EQUIP_STATUS
    /\ (script = "pivot" /\ pc \in {"select_equipment", "done"})
       => \A i \in 1..Len(detail_df) :
             detail_df[i].STATUS
                 = LastOfLatest(RowsOfSelectedSystem, detail_df[i],
                                <<"EQUIPMENT">>).EQUIP_STATUS

\* The point of a trend has the lowest level of the input rows of its key.
PointIsGroupMinimum(point, input, keycols, col) ==
    LET rows == RowsOfKey(input, point, keycols)
    IN  LevelOf(point[col]) = MinKnownLevel({rows[k][col] : k \in 1..Len(rows)})

CompleteRows(rows) ==
    {i \in 1..Len(rows) :
        notna(rows[i].AREA) /\ notna(rows[i].SYSTEM) /\ notna(rows[i].EQUIPMENT)}

\* The records of the sheet that lack a key.
MissingKeyCount == Len(sheet) - Cardinality(CompleteRows(sheet))

\* The level of a group row is the minimum over the rows of df that have all
\* three keys and the keys of the group, and there is such a row.
LevelFromCompleteRows(group, keycols) ==
    LET members == {k \in CompleteRows(df) :
                        \A j \in 1..Len(keycols) : df[k][keycols[j]] = group[keycols[j]]}
    IN  /\ members # {}
        /\ LevelOf(group[EquipScoreCol])
               = MinKnownLevel({df[k][EquipScoreCol] : k \in members})

\* The numbers a notice shows.
NumbersShown(n) ==
    IF "value" \in DOMAIN n THEN {n.value}
    ELSE IF "counts" \in DOMAIN n THEN {n.counts[j] : j \in 1..Len(n.counts)}
    ELSE {}

\* The run has shown everything it shows about the aggregation.
RunShown ==
    \/ script = "dashboard" /\ pc = "done"
    \/ script \in {"dashboard2", "dashboard3", "pivot"} /\ pc = "render"

\* C14: a record with a missing area, system or equipment key contributes to
\* no system or area level, and when records of the sheet lack a key, their
\* number is among what the run shows.
C14_MissingKeyDroppedAndCounted ==
    /\ JustAggregated
       => /\ \A i \in 1..Len(system_scores) :
                LevelFromCompleteRows(system_scores[i], <<"AREA", "SYSTEM">>)
          /\ \A i \in 1..Len(area_scores) :
                LevelFromCompleteRows(area_scores[i], <<"AREA">>)
    /\ (RunShown /\ MissingKeyCount > 0)
       => \E k \in 1..Len(notices) : MissingKeyCount \in NumbersShown(notices[k])

\* C15: with no record left (an empty sheet, or a date range that selects no
\* record) the run raises no exception and, where it computes the system
\* and area group lists, they are empty.
C15_EmptyIsDefined ==
    df = <<>>
       => /\ pc # "crashed"
          /\ JustAggregated => (system_scores = <<>> /\ area_scores = <<>>)

\* Two cells hold the same raw value (two missing cells count as the same).
SameRaw(a, b) == (isna(a) /\ isna(b)) \/ a = b

\* The overall score of a row (dashboard_pivot.py renames the column to SCORE).
OverallScore(r) == IF "CMS" \in DOMAIN r THEN r.CMS ELSE r.SCORE

\* The nine raw fields of the row r are those of the ingested row raw.
RawFieldsOf(r, raw) ==
    /\ SameRaw(r.AREA, raw.AREA)
    /\ SameRaw(r.SYSTEM, raw.SYSTEM)
    /\ SameRaw(r.EQUIPMENT, raw.EQUIPMENT)
    /\ SameRaw(r.DATE, raw.DATE)
    /\ SameRaw(r.VIBRATION, raw.VIBRATION)
    /\ SameRaw(r.OIL_ANALYSIS, raw.OIL_ANALYSIS)
    /\ SameRaw(r.TEMPERATURE, raw.TEMPERATURE)
    /\ SameRaw(r.OTHER_INSPECTION, raw.OTHER_INSPECTION)
    /\ SameRaw(OverallScore(r), raw.CMS)

\* C16: throughout a run every record of the working frame carries, in its
\* nine raw fields, the values one record of the sheet was ingested with:
\* levels and statuses go to new fields and no raw field is overwritten.
C16_RawFieldsKept ==
    \A i \in 1..Len(df) : \E k \in 1..Len(sheet) : RawFieldsOf(df[i], sheet[k])

\* The run is on the sheet of the end-to-end scenario, in a script that
\* classifies the equipment from its categories, and has just aggregated
\* both records.
ScenarioAggregated ==
    /\ script \in {"dashboard", "dashboard2", "dashboard3"}
    /\ sheet \in ScenarioDatasets
    /\ JustAggregated
    /\ Len(df) = 2

\* The level of the one row of a table of group levels.
OnlyGroupLevel(groups) ==
    IF Len(groups) = 1 THEN LevelOf(groups[1][EquipScoreCol]) ELSE [known |-> FALSE]

\* C17: in the end-to-end scenario E1 (VIBRATION "Good", OIL ANALYSIS "Need
\* Action", TEMPERATURE blank, OTHER INSPECTION "Alert") gets level 1 and the
\* status of level 1, E2 (four blank categories, overall score 3) gets level
\* 3 and the status of level 3, and their system and its area get level 1.
C17_EndToEndScenario ==
    ScenarioAggregated =>
        /\ \A i \in 1..Len(df) :
              /\ df[i].EQUIPMENT = EQUIPMENT_E1
                    => LevelOf(df[i][EquipScoreCol]) = [known |-> TRUE, level |-> 1]
              /\ df[i].EQUIPMENT = EQUIPMENT_E2
                    => LevelOf(df[i][EquipScoreCol]) = [known |-> TRUE, level |-> 3]
              /\ "EQUIP_STATUS" \in DOMAIN df[i]
                    => df[i].EQUIP_STATUS
                         = IF df[i].EQUIPMENT = EQUIPMENT_E1
                           THEN StatusNames("score_to_status")[1]
                           ELSE StatusNames("score_to_status")[3]
        /\ OnlyGroupLevel(system_scores) = [known |-> TRUE, level |-> 1]
        /\ OnlyGroupLevel(area_scores) = [known |-> TRUE, level |-> 1]

(* Claims about the spelling of raw texts, checked under SpecUnit *)

\* Other spellings of a text: in upper case, in lower case, and with blanks
\* before and after.
Respellings(s) ==
    {upper(s), lower(s), <<" ">> \o s, s \o <<"\t">>, <<" ">> \o upper(s) \o <<" ">>}

\* The texts that equal the text val after trimming and lowercasing.
SameTexts(val) ==
    {x \in RawTexts \cup {PyStr(s) : s \in Respellings(val.s)} :
        lower(strip(x.s)) = lower(strip(val.s))}

\* C18: coerce_score and map_score give a text the result they give every
\* text that is equal to it after trimming and lowercasing: the same level,
\* or UNKNOWN for both.
C18_CaseAndBlankInsensitive ==
    (arg.t = "str" /\ ret.fn \in {"coerce_score", "map_score"})
       => \A x \in SameTexts(arg) :
             ret.out = IF ret.fn = "coerce_score" THEN coerce_score(x)
                       ELSE map_score(x, ret.category)

\* coerce_score is called with " GOOD ", one of several spellings of "good".
C18_Witness ==
    /\ arg = PyStr(<<" ", "G", "O", "O", "D", " ">>)
    /\ ret.fn = "coerce_score"
    /\ ret.out = PyInt(3)
    /\ PyStr(<<"g", "o", "o", "d">>) \in SameTexts(arg)
    /\ PyStr(<<"G", "o", "o", "d">>) \in SameTexts(arg)

(* Claims about the equipment selected in dashboard_pivot.py *)

\* C19: the performance trend shown for the selected equipment is built only
\* from the records of that equipment: every point of aggregated_df is a
\* record of the selected equipment.
C19_TrendOfSelectedEquipmentOnly ==
    (script = "pivot" /\ pc = "done")
       => \A i \in 1..Len(aggregated_df) :
             aggregated_df[i].EQUIPMENT = selected_equip_name

\* The status the pie snapshot, the explorer snapshot and the detail table
\* show for the equipment of the detail row d.
PieStatuses(d) ==
    {latest_for_pie[i].EQUIP_STATUS :
        i \in {k \in 1..Len(latest_for_pie) : latest_for_pie[k].EQUIPMENT = d.EQUIPMENT}}

ExplorerStatuses(d) ==
    {latest_equipment_status[i].EQUIP_STATUS :
        i \in {k \in 1..Len(latest_equipment_status) :
                  /\ latest_equipment_status[k].EQUIPMENT = d.EQUIPMENT
                  /\ latest_equipment_status[k].SYSTEM = d.SYSTEM}}

\* C20: for every equipment, the status distribution per area
\* (latest_for_pie), the system status explorer (latest_equipment_status)
\* and the equipment detail table of its system (detail_df) take the status
\* from the same record: the three views show the same status for it.
C20_ViewsAgree ==
    (script = "pivot" /\ pc \in {"select_equipment", "done"})
       => \A i \in 1..Len(detail_df) :
             /\ PieStatuses(detail_df[i]) = {detail_df[i].STATUS}
             /\ ExplorerStatuses(detail_df[i]) = {detail_df[i].STATUS}

===========================================================================
